---- MODULE Spec2Model ----
(***************************************************************************)
(* Model of eda_movielens.py: a linear batch script that loads ratings.csv *)
(* and movies.csv, prints dataset statistics, renders four figures to PNG  *)
(* files and prints bias insights.                                         *)
(*                                                                         *)
(* Encoding.  A rating value is an integer number of thousandths (3.456 is *)
(* 3456), so that round(2) is an operation that can change a value.  A     *)
(* string of the genres column is a sequence of one-character strings, so  *)
(* that str.split('|') is computed character by character; a label is such *)
(* a sequence too.  A DataFrame is a record [cols, rows]: cols the column  *)
(* names in order, rows the sequence of row records.  A missing value is   *)
(* NaN (numeric columns) or NaNStr (the genres column).                    *)
(***************************************************************************)
EXTENDS Integers, Sequences, FiniteSets, TLC

VARIABLES
    ratings_file,        \* ratings.csv on disk: [status, rows]
    movies_file,         \* movies.csv on disk: [status, rows]
    pc,                  \* the stage the script is about to run
    ratings_df,          \* DataFrame read from ratings.csv
    movies_df,           \* DataFrame read from movies.csv
    loaded_movies,       \* history: movies_df as the loader left it
    console,             \* lines printed so far: sequence of [tag, args]
    figures,             \* pyplot's open figures, in creation order
    artifacts,           \* image files written so far, in order
    stats,               \* n_users, n_movies_rated, n_ratings, n_movies_total
    rating_counts,       \* line 34
    user_activity,       \* line 42
    movie_popularity,    \* lines 53-60
    user_stats,          \* lines 84-87
    genre_counts,        \* line 119 (a Counter, in insertion order)
    top_genres,          \* line 120
    power_users,         \* line 137
    popular_movies_ids   \* line 138

vars == <<ratings_file, movies_file, pc, ratings_df, movies_df, loaded_movies,
          console, figures, artifacts, stats, rating_counts, user_activity,
          movie_popularity, user_stats, genre_counts, top_genres, power_users,
          popular_movies_ids>>

(***************************************************************************)
(* Program constants                                                       *)
(***************************************************************************)
TopGenres == 10
TopUsers == 20
TopMovies == 50
Delim == "|"
NaN == -1
NaNStr == <<"NaN">>

(***************************************************************************)
(* Bounds of the checked input space                                       *)
(***************************************************************************)
MaxRatings == 3
MaxItems == 2
MaxGenreLen == 2
Slack == 2

(***************************************************************************)
(* Generic helpers                                                         *)
(***************************************************************************)
Range(s) == {s[i] : i \in DOMAIN s}

Min(S) == CHOOSE x \in S : \A y \in S : x <= y

\* The sum of a sequence of integers, by halves.
RECURSIVE SumSeq(_)
SumSeq(s) ==
    IF Len(s) = 0 THEN 0
    ELSE IF Len(s) = 1 THEN s[1]
    ELSE SumSeq(SubSeq(s, 1, Len(s) \div 2))
         + SumSeq(SubSeq(s, Len(s) \div 2 + 1, Len(s)))

\* The concatenation of a sequence of sequences, by halves.
RECURSIVE Concat(_)
Concat(ss) ==
    IF Len(ss) = 0 THEN <<>>
    ELSE IF Len(ss) = 1 THEN ss[1]
    ELSE Concat(SubSeq(ss, 1, Len(ss) \div 2))
         \o Concat(SubSeq(ss, Len(ss) \div 2 + 1, Len(ss)))

Take(s, n) == IF Len(s) <= n THEN s ELSE SubSeq(s, 1, n)

Column(rows, c) == [i \in DOMAIN rows |-> rows[i][c]]

\* The elements of a finite set of integers in ascending order.
SortedSeq(S) ==
    LET below == [x \in S |-> Cardinality({y \in S : y < x})]
    IN  [i \in 1..Cardinality(S) |-> CHOOSE x \in S : below[x] = i - 1]

\* The stable sort of s in descending order of the integer field f: for each
\* value of f, from the largest down, the elements with that value in their
\* order in s.
StableSortDesc(s, f) ==
    LET keys == SortedSeq(Range(Column(s, f)))
    IN  Concat([k \in DOMAIN keys |->
                   SelectSeq(s, LAMBDA r : r[f] = keys[Len(keys) + 1 - k])])

(***************************************************************************)
(* Python / pandas operations used by the script                           *)
(***************************************************************************)
\* floor(log2(num / den)) for positive integers num and den.
Log2Floor(num, den) ==
    IF num >= den
    THEN CHOOSE b \in 0..20 : 2^b * den <= num /\ 2^(b + 1) * den > num
    ELSE 0 - (CHOOSE j \in 1..20 : 2^j * num >= den /\ 2^(j - 1) * num < den)

\* 2^e modulo m.
RECURSIVE PowMod2(_, _)
PowMod2(e, m) == IF e = 0 THEN 1 % m ELSE (2 * PowMod2(e - 1, m)) % m

\* rint(k + 0.5): of k and k + 1, the even one.
RoundHalfEven(k) == IF k % 2 = 0 THEN k ELSE k + 1

\* numpy's round(2) of the double x nearest to t thousandths (t >= 0), in
\* thousandths: rint(x * 100) / 100.  When t is not half-way between two
\* hundredths the nearest hundredth is the result.  When it is (t = 10 k + 5),
\* the doubles decide.  x = M / 2^e with 2^52 <= M < 2^53 and M the integer
\* nearest to t * 2^e / 1000, so that x - t/1000 = c / (1000 * 2^e) with c the
\* least residue of -(t * 2^e) modulo 1000; the product x * 100 is rounded to
\* the double nearest to it, which is k + 0.5 itself unless x * 100 is more
\* than half a unit in the last place of k + 0.5 away from it, that is unless
\* |c| > thr; rint then takes k + 0.5 to the even neighbour and any other
\* value to its side.
Round2(t) ==
    LET k == t \div 10
        b == Log2Floor(t, 1000)
        bp == Log2Floor(t, 10)
        r == (t * PowMod2(52 - b, 1000)) % 1000
        c == IF r < 500 THEN 0 - r ELSE 1000 - r
        full == 5 * 2^(bp - b)
        thr == IF c < 0 /\ 2^bp * 10 = t THEN full \div 2 ELSE full
    IN  10 * (IF t % 10 < 5 THEN k
              ELSE IF t % 10 > 5 THEN k + 1
              ELSE IF c > thr THEN k + 1
              ELSE IF 0 - c > thr THEN k
              ELSE RoundHalfEven(k))

\* A value that is a whole number of eighths is a double exactly.
IsBinary(v) == v % 125 = 0

\* The largest odd divisor of i.
OddPart(i) == CHOOSE o \in 1..i :
                 /\ o % 2 = 1 /\ i % o = 0
                 /\ \A p \in 1..i : (p % 2 = 1 /\ i % p = 0) => p <= o

\* The double sum of the group is its exact sum: one value, or values that are
\* doubles exactly.
ExactSum(vals) == Len(vals) = 1 \/ \A i \in DOMAIN vals : IsBinary(vals[i])

\* Every step of the running variance is exact: the values are doubles
\* exactly and so is the mean of every prefix (in eighths, the sum of the
\* first i values is a multiple of the odd part of i), and so is the result,
\* j/2 hundredths.
ExactStd(vals, j) ==
    /\ \A i \in DOMAIN vals : IsBinary(vals[i])
    /\ \A i \in DOMAIN vals :
          SumSeq([x \in 1..i |-> vals[x] \div 125]) % OddPart(i) = 0
    /\ j % 25 = 0

\* 'mean' of a non-empty group of rating values, then .round(2).  A mean that
\* is not half-way between two hundredths goes to the nearest one.  One that
\* is (10 q + 5 thousandths) is the double nearest to it when the sum is
\* exact, and Round2 says where that double goes; otherwise the side is
\* decided by the rounding errors of the values and of their summation, which
\* thousandths do not carry: the upper hundredth if 'up', else the lower.
AggMean(vals, up) ==
    LET s == SumSeq(vals)
        n == Len(vals)
        q == s \div (10 * n)
        r == s % (10 * n)
    IN  IF 2 * r < 10 * n THEN 10 * q
        ELSE IF 2 * r > 10 * n THEN 10 * (q + 1)
        ELSE IF ExactSum(vals) THEN Round2(10 * q + 5)
        ELSE IF up THEN 10 * (q + 1) ELSE 10 * q

\* The standard deviation with ddof delta degrees of freedom, then .round(2):
\* NaN when the group has no more than ddof values.  With d the deviations
\* from the least value and D = n * sum(d^2) - (sum d)^2, the variance is
\* D / (n (n - ddof)); h is the least number of hundredths whose upper
\* half-way point lies above its square root.  A square root that is not a
\* half-way point goes to h.  One that is (between h - 1 and h) goes to the
\* even one of them when every step of the computation is exact, and otherwise
\* to the side the rounding errors decide: h if 'up', else h - 1.
StdOf(vals, ddof, up) ==
    LET n == Len(vals)
        m == Min(Range(vals))
        d == [i \in DOMAIN vals |-> vals[i] - m]
        D == n * SumSeq([i \in DOMAIN d |-> d[i] * d[i]]) - SumSeq(d) * SumSeq(d)
        u == 25 * n * (n - ddof)
        h == CHOOSE k \in 0..(1 + SumSeq(d) \div 10) :
                 /\ (k = 0 \/ (2 * k - 1) * (2 * k - 1) * u <= D)
                 /\ (2 * k + 1) * (2 * k + 1) * u > D
        halfway == h > 0 /\ (2 * h - 1) * (2 * h - 1) * u = D
    IN  IF n - ddof = 0 THEN NaN
        ELSE IF ~halfway THEN 10 * h
        ELSE IF ExactStd(vals, 2 * h - 1) THEN 10 * RoundHalfEven(h - 1)
        ELSE IF up THEN 10 * h ELSE 10 * (h - 1)

\* AggStd as the population standard deviation (ddof = 0): 0 for a group of
\* one value, where the sample standard deviation is undefined.
AggStd_Population(vals, up) == StdOf(vals, 0, up)

\* 'std' of a non-empty group: pandas' sample standard deviation (ddof = 1).
AggStd(vals, up) == StdOf(vals, 1, up)

\* The rating values of the rows with key k.
GroupVals(rows, key, k) ==
    Column(SelectSeq(rows, LAMBDA r : r[key] = k), "rating")

\* The cells <<k, column>> of the aggregate whose value the rounding errors
\* decide.
Undetermined(rows, key) ==
    LET keys == Range(Column(rows, key))
    IN  {<<k, "avg_rating">> : k \in {x \in keys :
            AggMean(GroupVals(rows, key, x), TRUE)
               # AggMean(GroupVals(rows, key, x), FALSE)}}
        \cup {<<k, "rating_std">> : k \in {x \in keys :
            AggStd(GroupVals(rows, key, x), TRUE)
               # AggStd(GroupVals(rows, key, x), FALSE)}}

\* GroupAgg with 'nunique' in place of 'count'.
GroupAgg_NUnique(rows, key, ups) ==
    LET keys == SortedSeq(Range(Column(rows, key)))
    IN  [i \in DOMAIN keys |->
            (key :> keys[i]) @@
            [num_ratings |-> Cardinality(Range(GroupVals(rows, key, keys[i]))),
             avg_rating |-> AggMean(GroupVals(rows, key, keys[i]),
                                    <<keys[i], "avg_rating">> \in ups),
             rating_std |-> AggStd(GroupVals(rows, key, keys[i]),
                                   <<keys[i], "rating_std">> \in ups)]]

\* ratings_df.groupby(key).agg({'rating': ['count', 'mean', 'std']}).round(2),
\* columns renamed: one row per distinct key, keys ascending.  ups holds the
\* undetermined cells that go to the upper hundredth.
GroupAgg(rows, key, ups) ==
    LET keys == SortedSeq(Range(Column(rows, key)))
    IN  [i \in DOMAIN keys |->
            (key :> keys[i]) @@
            [num_ratings |-> Len(GroupVals(rows, key, keys[i])),
             avg_rating |-> AggMean(GroupVals(rows, key, keys[i]),
                                    <<keys[i], "avg_rating">> \in ups),
             rating_std |-> AggStd(GroupVals(rows, key, keys[i]),
                                   <<keys[i], "rating_std">> \in ups)]]

\* ratings_df.groupby(key).size(): rows per key, keys ascending.
GroupSize(rows, key) ==
    LET keys == SortedSeq(Range(Column(rows, key)))
    IN  [i \in DOMAIN keys |->
            [key |-> keys[i],
             size |-> Len(SelectSeq(rows, LAMBDA r : r[key] = keys[i]))]]

\* Series.nunique()
NUnique(rows, c) == Cardinality(Range(Column(rows, c)))

\* left.merge(right[['movieId', 'title']], on='movieId'): inner join, left
\* order kept, one output row per matching right row (in right order).
Merge(left, right) ==
    Concat([i \in DOMAIN left |->
               LET m == SelectSeq(right, LAMBDA r : r.movieId = left[i].movieId)
               IN  [j \in DOMAIN m |-> left[i] @@ [title |-> m[j].title]]])

\* Python s.split(Delim): the parts of s between consecutive delimiters, from
\* the start of s to its end; k delimiters give k + 1 parts, empty ones kept.
SplitStr(s) ==
    LET cuts == SortedSeq({0, Len(s) + 1} \cup {i \in DOMAIN s : s[i] = Delim})
    IN  [k \in 1..(Len(cuts) - 1) |-> SubSeq(s, cuts[k] + 1, cuts[k + 1] - 1)]

\* StrSplit on a delimiter that never occurs: the whole string is one label.
StrSplit_WrongDelim(s) == IF s = NaNStr THEN <<NaNStr>> ELSE <<s>>

\* Series.str.split('|') on one cell: a missing value stays missing.
StrSplit(s) == IF s = NaNStr THEN <<NaNStr>> ELSE SplitStr(s)

\* all_genres after the loop of lines 116-117 over cells that are all lists.
Extend(lists) == Concat(lists)

\* collections.Counter(seq): a dict whose keys are in first-insertion order,
\* each with the number of its occurrences.
Counter(s) ==
    LET firsts == SortedSeq({i \in DOMAIN s : \A j \in 1..(i - 1) : s[j] # s[i]})
    IN  [k \in DOMAIN firsts |->
            [label |-> s[firsts[k]],
             count |-> Cardinality({i \in DOMAIN s : s[i] = s[firsts[k]]})]]

Reverse(s) == [i \in DOMAIN s |-> s[Len(s) + 1 - i]]

\* MostCommon as sorted(items, key=count)[::-1][:n]: descending, but items with
\* equal counts come out in reverse insertion order.
MostCommon_TiesReversed(c, n) == Take(StableSortDesc(Reverse(c), "count"), n)

\* Counter.most_common(n) = sorted(items, key=count, reverse=True)[:n], which
\* keeps the insertion order of items with equal counts.
MostCommon(c, n) == Take(StableSortDesc(c, "count"), n)

\* The orders of rows that are descending in field f.
DescendingOrders(rows, f) ==
    LET k == Len(rows)
        perms == {p \in [1..k -> 1..k] : \A i, j \in 1..k : i # j => p[i] # p[j]}
    IN  {[i \in 1..k |-> rows[p[i]]] : p \in
            {q \in perms : \A i \in 1..k : i < k => rows[q[i]][f] >= rows[q[i+1]][f]}}

\* NLargest as head(n): the first n rows, unsorted.
NLargest_Head(rows, n, f) == {Take(rows, n)}

\* DataFrame.nlargest(n, f), keep='first'.  With more than n rows pandas
\* selects with a stable merge sort: the first n rows of the stable descending
\* order.  With at most n rows it returns sort_values(ascending=False), whose
\* default sort is not stable: any descending order of all the rows.
NLargest(rows, n, f) ==
    IF Len(rows) > n THEN {Take(StableSortDesc(rows, f), n)}
    ELSE DescendingOrders(rows, f)

\* Series.value_counts().sort_index(): count per distinct value, ascending.
ValueCounts(rows, c) ==
    LET keys == SortedSeq(Range(Column(rows, c)))
    IN  [i \in DOMAIN keys |->
            [value |-> keys[i],
             count |-> Len(SelectSeq(rows, LAMBDA r : r[c] = keys[i]))]]

\* ratings_df[ratings_df[c].isin(ids)].shape[0]
CountIsIn(rows, c, ids) == Len(SelectSeq(rows, LAMBDA r : r[c] \in Range(ids)))

(***************************************************************************)
(* Console, figures and files                                              *)
(***************************************************************************)
Line(tag, args) == [tag |-> tag, args |-> args]

\* NewFigure without the plt.figure() call: the stage draws on the figure of
\* the stage before it.
NewFigure_Reuse(figs) ==
    IF figs = <<>> THEN <<[num |-> 1, plots |-> <<>>]>> ELSE figs

\* plt.figure(): a new figure, numbered after those already open, becomes the
\* current one.  No statement of the script closes a figure.
NewFigure(figs) == Append(figs, [num |-> Len(figs) + 1, plots |-> <<>>])

\* A plotting call draws on the current figure, the one created last.
Draw(figs, plot) ==
    [figs EXCEPT ![Len(figs)].plots = Append(@, plot)]

\* SaveFig with the file name of the first figure pasted into every call.
SaveFig_SameName(files, figs, name) ==
    Append(files, [name |-> "basic_distributions.png", fig |-> figs[Len(figs)].num,
                   plots |-> figs[Len(figs)].plots])

\* plt.savefig(name): the current figure, written to the file.
SaveFig(files, figs, name) ==
    Append(files, [name |-> name, fig |-> figs[Len(figs)].num,
                   plots |-> figs[Len(figs)].plots])

DataFrame(cols, rows) == [cols |-> cols, rows |-> rows]

NoFrame == DataFrame(<<>>, <<>>)

RatingCols == <<"userId", "movieId", "rating", "timestamp">>
MovieCols == <<"movieId", "title", "genres">>

(***************************************************************************)
(* Stages                                                                  *)
(***************************************************************************)
\* LoaderNotFound without the exit() of line 14: the script goes on.
LoaderNotFound_NoExit ==
    /\ pc = "load"
    /\ \/ ratings_file.status = "missing"
       \/ ratings_file.status = "ok" /\ movies_file.status = "missing"
    /\ ratings_df' = IF ratings_file.status = "ok"
                     THEN DataFrame(RatingCols, ratings_file.rows)
                     ELSE ratings_df
    /\ console' = Append(console, Line("ERROR: Dataset files not found.", <<>>))
    /\ pc' = "summary"
    /\ UNCHANGED <<ratings_file, movies_file, movies_df, loaded_movies, figures,
                   artifacts, stats, rating_counts, user_activity,
                   movie_popularity, user_stats, genre_counts, top_genres,
                   power_users, popular_movies_ids>>

\* Lines 8-14, ratings.csv or (read second) movies.csv absent: the handler
\* prints the error and exit() ends the process.
LoaderNotFound ==
    /\ pc = "load"
    /\ \/ ratings_file.status = "missing"
       \/ ratings_file.status = "ok" /\ movies_file.status = "missing"
    /\ ratings_df' = IF ratings_file.status = "ok"
                     THEN DataFrame(RatingCols, ratings_file.rows)
                     ELSE ratings_df
    /\ console' = Append(console, Line("ERROR: Dataset files not found.", <<>>))
    /\ pc' = "exited"
    /\ UNCHANGED <<ratings_file, movies_file, movies_df, loaded_movies, figures,
                   artifacts, stats, rating_counts, user_activity,
                   movie_popularity, user_stats, genre_counts, top_genres,
                   power_users, popular_movies_ids>>

\* Lines 8-14, a file that read_csv cannot parse: the exception is not a
\* FileNotFoundError, nothing catches it and the process dies with a traceback.
LoaderParseError ==
    /\ pc = "load"
    /\ \/ ratings_file.status = "malformed"
       \/ ratings_file.status = "ok" /\ movies_file.status = "malformed"
    /\ ratings_df' = IF ratings_file.status = "ok"
                     THEN DataFrame(RatingCols, ratings_file.rows)
                     ELSE ratings_df
    /\ pc' = "crashed"
    /\ UNCHANGED <<ratings_file, movies_file, movies_df, loaded_movies, console,
                   figures, artifacts, stats, rating_counts, user_activity,
                   movie_popularity, user_stats, genre_counts, top_genres,
                   power_users, popular_movies_ids>>

\* Lines 8-11, both files read.
LoaderOk ==
    /\ pc = "load"
    /\ ratings_file.status = "ok"
    /\ movies_file.status = "ok"
    /\ ratings_df' = DataFrame(RatingCols, ratings_file.rows)
    /\ movies_df' = DataFrame(MovieCols, movies_file.rows)
    /\ loaded_movies' = DataFrame(MovieCols, movies_file.rows)
    /\ console' = Append(console, Line("Successfully loaded MovieLens dataset", <<>>))
    /\ pc' = "summary"
    /\ UNCHANGED <<ratings_file, movies_file, figures, artifacts, stats,
                   rating_counts, user_activity, movie_popularity, user_stats,
                   genre_counts, top_genres, power_users, popular_movies_ids>>

\* Lines 18-21.
ComputeStats ==
    [n_users |-> NUnique(ratings_df.rows, "userId"),
     n_movies_rated |-> NUnique(ratings_df.rows, "movieId"),
     n_ratings |-> Len(ratings_df.rows),
     n_movies_total |-> NUnique(movies_df.rows, "movieId")]

\* Lines 17 and 23-26: the lines printed before the first division.
OverviewHead(st) ==
    <<Line("=== DATASET OVERVIEW ===", <<>>),
      Line("Users", <<st.n_users>>),
      Line("Movies (total)", <<st.n_movies_total>>),
      Line("Movies (rated)", <<st.n_movies_rated>>),
      Line("Total ratings", <<st.n_ratings>>)>>

\* Lines 27-29: each line prints a quotient, recorded as <<dividend, divisor>>.
OverviewTail(st) ==
    <<Line("Sparsity", <<st.n_ratings, st.n_users * st.n_movies_rated>>),
      Line("Avg ratings per user", <<st.n_ratings, st.n_users>>),
      Line("Avg ratings per movie", <<st.n_ratings, st.n_movies_rated>>)>>

\* Lines 17-29 on a table with ratings.
SummaryOk ==
    /\ pc = "summary"
    /\ ComputeStats.n_users * ComputeStats.n_movies_rated # 0
    /\ stats' = ComputeStats
    /\ console' = console \o OverviewHead(ComputeStats) \o OverviewTail(ComputeStats)
    /\ pc' = "distribution"
    /\ UNCHANGED <<ratings_file, movies_file, ratings_df, movies_df,
                   loaded_movies, figures, artifacts, rating_counts,
                   user_activity, movie_popularity, user_stats, genre_counts,
                   top_genres, power_users, popular_movies_ids>>

\* SummaryZeroDivision with a guard that prints the quotients as 0 and goes on.
SummaryZeroDivision_Guarded ==
    /\ pc = "summary"
    /\ ComputeStats.n_users * ComputeStats.n_movies_rated = 0
    /\ stats' = ComputeStats
    /\ console' = console \o OverviewHead(ComputeStats)
                          \o <<Line("Sparsity", <<0, 1>>),
                               Line("Avg ratings per user", <<0, 1>>),
                               Line("Avg ratings per movie", <<0, 1>>)>>
    /\ pc' = "distribution"
    /\ UNCHANGED <<ratings_file, movies_file, ratings_df, movies_df,
                   loaded_movies, figures, artifacts, rating_counts,
                   user_activity, movie_popularity, user_stats, genre_counts,
                   top_genres, power_users, popular_movies_ids>>

\* Lines 17-27 when n_users * n_movies_rated is 0: the division of line 27
\* raises ZeroDivisionError while the Sparsity line is being built.
SummaryZeroDivision ==
    /\ pc = "summary"
    /\ ComputeStats.n_users * ComputeStats.n_movies_rated = 0
    /\ stats' = ComputeStats
    /\ console' = console \o OverviewHead(ComputeStats)
    /\ pc' = "crashed"
    /\ UNCHANGED <<ratings_file, movies_file, ratings_df, movies_df,
                   loaded_movies, figures, artifacts, rating_counts,
                   user_activity, movie_popularity, user_stats, genre_counts,
                   top_genres, power_users, popular_movies_ids>>

\* Lines 32-50.
Distribution ==
    /\ pc = "distribution"
    /\ rating_counts' = ValueCounts(ratings_df.rows, "rating")
    /\ user_activity' = GroupSize(ratings_df.rows, "userId")
    /\ LET f1 == NewFigure(figures)
           f2 == Draw(f1, "bar:rating_counts")
           f3 == Draw(f2, "hist:user_activity")
       IN  /\ figures' = f3
           /\ artifacts' = SaveFig(artifacts, f3, "basic_distributions.png")
    /\ pc' = "popularity"
    /\ UNCHANGED <<ratings_file, movies_file, ratings_df, movies_df,
                   loaded_movies, console, stats, movie_popularity, user_stats,
                   genre_counts, top_genres, power_users, popular_movies_ids>>

\* Lines 53-57: the grouped aggregate, before the join.
GroupedPopularity(rows, ups) == GroupAgg(rows, "movieId", ups)

\* Lines 53-60.
MoviePopularity(rows, movies, ups) == Merge(GroupedPopularity(rows, ups), movies)

\* Lines 53-81.
Popularity ==
    /\ pc = "popularity"
    /\ \E ups \in SUBSET Undetermined(ratings_df.rows, "movieId") :
          movie_popularity' = MoviePopularity(ratings_df.rows, movies_df.rows, ups)
    /\ LET f1 == NewFigure(figures)
           f2 == Draw(f1, "scatter:movie_popularity")
       IN  /\ figures' = f2
           /\ artifacts' = SaveFig(artifacts, f2, "popularity_vs_rating.png")
    /\ pc' = "user_behavior"
    /\ UNCHANGED <<ratings_file, movies_file, ratings_df, movies_df,
                   loaded_movies, console, stats, rating_counts, user_activity,
                   user_stats, genre_counts, top_genres, power_users,
                   popular_movies_ids>>

\* Lines 84-87.
UserStats(rows, ups) == GroupAgg(rows, "userId", ups)

\* Lines 84-111.
UserBehavior ==
    /\ pc = "user_behavior"
    /\ \E ups \in SUBSET Undetermined(ratings_df.rows, "userId") :
          user_stats' = UserStats(ratings_df.rows, ups)
    /\ LET f1 == NewFigure(figures)
           f2 == Draw(f1, "hist:avg_rating")
           f3 == Draw(f2, "hist:rating_std.dropna")
           f4 == Draw(f3, "scatter:user_stats")
       IN  /\ figures' = f4
           /\ artifacts' = SaveFig(artifacts, f4, "user_behavior_analysis.png")
    /\ pc' = "genre"
    /\ UNCHANGED <<ratings_file, movies_file, ratings_df, movies_df,
                   loaded_movies, console, stats, rating_counts, user_activity,
                   movie_popularity, genre_counts, top_genres, power_users,
                   popular_movies_ids>>

\* Line 114 for one row: the row with the new genres_list cell.
WithGenresList(r) == r @@ [genres_list |-> StrSplit(r.genres)]

\* Line 114 raises when every genres cell is missing: pandas then reads the
\* column as numbers and it has no .str accessor.
NoStrAccessor(rows) == \A i \in DOMAIN rows : rows[i].genres = NaNStr

\* Line 117 raises on a row whose genres_list cell is missing (a float is not
\* iterable).
NotIterable(rows) == \E i \in DOMAIN rows : rows[i].genres = NaNStr

\* Line 114: the items table with the genres_list column added.
AddGenresList(df) ==
    DataFrame(Append(df.cols, "genres_list"),
              [i \in DOMAIN df.rows |-> WithGenresList(df.rows[i])])

\* Lines 115-119.
GenreCounts(rows) == Counter(Extend(Column(rows, "genres_list")))

\* Lines 114-129, every item with a genres string.
GenreOk ==
    /\ pc = "genre"
    /\ ~NotIterable(movies_df.rows)
    /\ movies_df' = AddGenresList(movies_df)
    /\ genre_counts' = GenreCounts(AddGenresList(movies_df).rows)
    /\ top_genres' = MostCommon(GenreCounts(AddGenresList(movies_df).rows), TopGenres)
    /\ LET f1 == NewFigure(figures)
           f2 == Draw(f1, "bar:top_genres")
       IN  /\ figures' = f2
           /\ artifacts' = SaveFig(artifacts, f2, "genre_distribution.png")
    /\ pc' = "bias"
    /\ UNCHANGED <<ratings_file, movies_file, ratings_df, loaded_movies, console,
                   stats, rating_counts, user_activity, movie_popularity,
                   user_stats, power_users, popular_movies_ids>>

\* Lines 114-117, an item without a genres value: line 114 or line 117 raises
\* before the figure of line 122 is created.
GenreError ==
    /\ pc = "genre"
    /\ NotIterable(movies_df.rows)
    /\ movies_df' = IF NoStrAccessor(movies_df.rows) THEN movies_df
                    ELSE AddGenresList(movies_df)
    /\ pc' = "crashed"
    /\ UNCHANGED <<ratings_file, movies_file, ratings_df, loaded_movies, console,
                   figures, artifacts, stats, rating_counts, user_activity,
                   movie_popularity, user_stats, genre_counts, top_genres,
                   power_users, popular_movies_ids>>

\* Line 137: the candidate values of power_users.
PowerUsers(ustats) ==
    {Column(r, "userId") : r \in NLargest(ustats, TopUsers, "num_ratings")}

\* Line 138: the candidate values of popular_movies_ids.
PopularMoviesIds(mp) ==
    {Column(r, "movieId") : r \in NLargest(mp, TopMovies, "num_ratings")}

\* Lines 132-144.
BiasInsights ==
    /\ pc = "bias"
    /\ \E pu \in PowerUsers(user_stats) :
       \E pm \in PopularMoviesIds(movie_popularity) :
          /\ power_users' = pu
          /\ popular_movies_ids' = pm
          /\ console' = console \o
                <<Line("=== FILTERING INSIGHTS ===", <<>>),
                  Line("Matrix dimensions", <<stats.n_users, stats.n_movies_rated>>),
                  Line("Matrix sparsity",
                       <<stats.n_ratings, stats.n_users * stats.n_movies_rated>>),
                  Line("Power users (top 20)",
                       <<Len(pu), CountIsIn(ratings_df.rows, "userId", pu),
                         stats.n_ratings>>),
                  Line("Popular movies (top 50)",
                       <<Len(pm), CountIsIn(ratings_df.rows, "movieId", pm),
                         stats.n_ratings>>)>>
    /\ pc' = "final_summary"
    /\ UNCHANGED <<ratings_file, movies_file, ratings_df, movies_df,
                   loaded_movies, figures, artifacts, stats, rating_counts,
                   user_activity, movie_popularity, user_stats, genre_counts,
                   top_genres>>

\* Lines 147-152.
FinalSummary ==
    /\ pc = "final_summary"
    /\ console' = console \o
          <<Line("=== SUMMARY ===", <<>>),
            Line("Generated visualizations:", <<>>),
            Line("- basic_distributions.png", <<>>),
            Line("- popularity_vs_rating.png", <<>>),
            Line("- user_behavior_analysis.png", <<>>),
            Line("- genre_distribution.png", <<>>)>>
    /\ pc' = "done"
    /\ UNCHANGED <<ratings_file, movies_file, ratings_df, movies_df,
                   loaded_movies, figures, artifacts, stats, rating_counts,
                   user_activity, movie_popularity, user_stats, genre_counts,
                   top_genres, power_users, popular_movies_ids>>

Next ==
    \/ LoaderNotFound
    \/ LoaderParseError
    \/ LoaderOk
    \/ SummaryOk
    \/ SummaryZeroDivision
    \/ Distribution
    \/ Popularity
    \/ UserBehavior
    \/ GenreOk
    \/ GenreError
    \/ BiasInsights
    \/ FinalSummary

(***************************************************************************)
(* Input files.  A file is [status, rows]: status "ok" (read_csv parses it *)
(* into rows), "missing" (FileNotFoundError) or "malformed" (another       *)
(* read_csv error).  An item table with no row is left out: what line 123  *)
(* draws from an empty dict is decided inside matplotlib.                  *)
(***************************************************************************)
UserIds == {1, 2}
MovieIds == {1, 2}
RatingValues == {4500, 3456}
Letters == {"a", Delim}

RatingRow(u, m, r) == [userId |-> u, movieId |-> m, rating |-> r, timestamp |-> 0]
MovieRow(m, g) == [movieId |-> m, title |-> "T", genres |-> g]

File(status, rows) == [status |-> status, rows |-> rows]

SeqsUpTo(S, n) == UNION {[1..k -> S] : k \in 0..n}

\* The string of n letters "a".
Word(n) == [i \in 1..n |-> "a"]

\* Ratings tables of up to MaxRatings rows over two users, two items and two
\* rating values, one of them with three decimals.
SmallRatings ==
    SeqsUpTo({RatingRow(u, m, r) : u \in UserIds, m \in MovieIds, r \in RatingValues},
             MaxRatings)

\* Item tables for them: every rated item and one never rated; item 2 absent;
\* item 1 listed twice.
Catalogues ==
    {<<MovieRow(1, <<"a">>), MovieRow(2, <<"a", Delim, "a", "a">>), MovieRow(3, <<"a", "a">>)>>,
     <<MovieRow(1, <<"a">>)>>,
     <<MovieRow(1, <<"a">>), MovieRow(2, <<"a", "a">>), MovieRow(1, <<"a">>)>>}

\* The cells of a genres column: the non-empty strings of up to MaxGenreLen
\* letters, and the missing value (read_csv reads an empty field as NaN).
GenreCells == (SeqsUpTo(Letters, MaxGenreLen) \ {<<>>}) \cup {NaNStr}

\* Item tables of 1..MaxItems rows, row i describing item i.
SmallItems ==
    UNION {{[i \in 1..k |-> MovieRow(i, g[i])] : g \in [1..k -> GenreCells]} :
           k \in 1..MaxItems}

FewRatings == <<RatingRow(1, 1, 4500), RatingRow(2, 1, 3456), RatingRow(1, 2, 3456)>>

\* Many items: user 1 rates each of items 1..n once, user 2 rates the items
\* of 'heavy' as well; the item table lists 1..n without item 'drop' and with
\* item 'dup' a second time (0: none).
ManyRatings(n, heavy) ==
    [i \in 1..n |-> RatingRow(1, i, 3000)]
    \o [i \in 1..Cardinality(heavy) |-> RatingRow(2, SortedSeq(heavy)[i], 3100)]

ManyItems(n, drop, dup) ==
    SelectSeq([i \in 1..n |-> MovieRow(i, <<"a">>)], LAMBDA r : r.movieId # drop)
    \o (IF dup = 0 THEN <<>> ELSE <<MovieRow(dup, <<"a">>)>>)

\* Many labels: item i of 1..m has the single label Word(i); a further item
\* lists the labels Word(j) and Word(k) (j = 0: no further item).
ManyLabels(m, j, k) ==
    [i \in 1..m |-> MovieRow(i, Word(i))]
    \o (IF j = 0 THEN <<>> ELSE <<MovieRow(m + 1, Word(j) \o <<Delim>> \o Word(k))>>)

\* Groups whose mean or standard deviation is half-way between two hundredths:
\* one value whose double lies below the half-way point, one whose double lies
\* above it and one that is the half-way point exactly; two values with an
\* inexact and with an exact half-way mean; four values with an exact and with
\* an inexact half-way standard deviation.
HalfwayGroups ==
    {<<1015>>, <<545>>, <<1125>>, <<2170, 2180>>, <<1000, 1250>>,
     <<1000, 1000, 1000, 1250>>, <<3000, 3000, 3000, 3010>>}

\* The ratings of user 1 for item 1 with the values of g, in order.
HalfwayRatings(g) == [i \in DOMAIN g |-> RatingRow(1, 1, g[i])]

Inputs ==
    {<<File("ok", r), File("ok", c)>> : r \in SmallRatings, c \in Catalogues}
    \cup {<<File("ok", HalfwayRatings(g)), File("ok", <<MovieRow(1, <<"a">>)>>)>> :
             g \in HalfwayGroups}
    \cup {<<File("ok", FewRatings), File("ok", c)>> : c \in SmallItems}
    \cup UNION {{<<File("ok", ManyRatings(n, heavy)), File("ok", ManyItems(n, drop, dup))>> :
                    heavy \in SUBSET {1, 2, n - 1, n}, drop \in {0, 1, n}, dup \in {0, 1, n}} :
                n \in (TopMovies + 2)..(TopMovies + 1 + Slack)}
    \cup UNION {{<<File("ok", FewRatings), File("ok", ManyLabels(m, 0, 0))>>}
                \cup {<<File("ok", FewRatings), File("ok", ManyLabels(m, j, k))>> :
                         j \in {1, 2, m - 1, m}, k \in {1, 2, m - 1, m}} :
                m \in (TopGenres - Slack)..(TopGenres + Slack)}
    \cup {<<File(sr, FewRatings), File(sm, <<MovieRow(1, <<"a">>)>>)>> :
             sr \in {"ok", "missing", "malformed"}, sm \in {"missing", "malformed"}}
    \cup {<<File(sr, FewRatings), File("ok", <<MovieRow(1, <<"a">>)>>)>> :
             sr \in {"missing", "malformed"}}

Init ==
    /\ \E in \in Inputs :
          /\ ratings_file = in[1]
          /\ movies_file = in[2]
    /\ pc = "load"
    /\ ratings_df = NoFrame
    /\ movies_df = NoFrame
    /\ loaded_movies = NoFrame
    /\ console = <<>>
    /\ figures = <<>>
    /\ artifacts = <<>>
    /\ stats = [n_users |-> 0, n_movies_rated |-> 0, n_ratings |-> 0, n_movies_total |-> 0]
    /\ rating_counts = <<>>
    /\ user_activity = <<>>
    /\ movie_popularity = <<>>
    /\ user_stats = <<>>
    /\ genre_counts = <<>>
    /\ top_genres = <<>>
    /\ power_users = <<>>
    /\ popular_movies_ids = <<>>

Spec == Init /\ [][Next]_vars

(***************************************************************************)
(* Properties                                                              *)
(***************************************************************************)
Terminated == pc \in {"exited", "crashed", "done"}

Tags == Column(console, "tag")

Printed(tag) == \E i \in DOMAIN console : console[i].tag = tag

Loaded == loaded_movies # NoFrame

ErrorLine == Line("ERROR: Dataset files not found.", <<>>)

\* The run has ended in the loader with nothing but what 'lines' holds: no
\* line of any section printed, no figure opened, no image written, and no
\* further step possible.
AbortedInLoader(lines) ==
    /\ ~ENABLED Next
    /\ console = lines
    /\ ~Printed("=== DATASET OVERVIEW ===")
    /\ figures = <<>>
    /\ artifacts = <<>>

\* C1 as stated: when ratings.csv or movies.csv is missing, the run ends right
\* after reporting the dataset-not-found error, with no dataset overview, no
\* later section and no image.
C1_MissingFileReportsError ==
    (pc # "load" /\ (ratings_file.status = "missing" \/ movies_file.status = "missing"))
    => (pc = "exited" /\ AbortedInLoader(<<ErrorLine>>))

\* C1 amended: when the file the loader is reading is missing (ratings.csv, or
\* movies.csv once ratings.csv has been parsed), the run ends by exit() right
\* after reporting the dataset-not-found error, with no dataset overview, no
\* later section and no image.  When movies.csv is missing and ratings.csv,
\* read first, is present but cannot be parsed, the run ends on that parse
\* error before movies.csv is looked for: it reports no dataset-not-found
\* error, and still prints no section and writes no image.
C1_MissingFileAborts ==
    (pc # "load" /\ (ratings_file.status = "missing" \/ movies_file.status = "missing"))
    => IF ratings_file.status = "malformed"
       THEN pc = "crashed" /\ AbortedInLoader(<<>>)
       ELSE pc = "exited" /\ AbortedInLoader(<<ErrorLine>>)

\* The loader has run with ratings.csv present and movies.csv missing.
C1_Witness ==
    /\ pc = "exited"
    /\ ratings_file.status = "ok"
    /\ movies_file.status = "missing"
    /\ console = <<ErrorLine>>

\* C2 as stated: after loading, both tables keep exactly the rows and columns
\* they had when loading finished.
C2_TablesNeverModified ==
    Loaded => /\ ratings_df = DataFrame(RatingCols, ratings_file.rows)
              /\ movies_df = loaded_movies

\* C3 as stated: at most one figure is open in any state.
C3_AtMostOneFigureOpen == Len(figures) <= 1

\* The plots each image stage draws.
StagePlots ==
    <<<<"bar:rating_counts", "hist:user_activity">>,
      <<"scatter:movie_popularity">>,
      <<"hist:avg_rating", "hist:rating_std.dropna", "scatter:user_stats">>,
      <<"bar:top_genres">>>>

\* C3 amended: no figure is ever released.  Every image stage opens a figure
\* of its own, which stays open to the end of the run, so the figures of all
\* image stages run so far are open together (up to four); each image is saved
\* from the figure its stage opened and shows that stage's plots only.
C3_FiguresStayOpen ==
    /\ Len(figures) = Len(artifacts)
    /\ Len(figures) <= 4
    /\ \A i \in DOMAIN figures :
          /\ figures[i].num = i
          /\ figures[i].plots = StagePlots[i]
          /\ artifacts[i].fig = i
          /\ artifacts[i].plots = StagePlots[i]

\* All four image stages have run and their four figures are open.
C3_Witness == pc = "done" /\ Len(figures) = 4

ArtifactNames ==
    <<"basic_distributions.png", "popularity_vs_rating.png",
      "user_behavior_analysis.png", "genre_distribution.png">>

SectionHeaders ==
    <<"=== DATASET OVERVIEW ===", "=== FILTERING INSIGHTS ===", "=== SUMMARY ===">>

\* The section headers printed so far, in the order printed.
Sections == SelectSeq(Tags, LAMBDA t : t \in Range(SectionHeaders))

\* The number of image stages that come before stage p.
ImagesBefore(p) ==
    CASE p \in {"load", "summary", "distribution"} -> 0
      [] p = "popularity" -> 1
      [] p = "user_behavior" -> 2
      [] p = "genre" -> 3
      [] p \in {"bias", "final_summary", "done"} -> 4

C4_Order ==
    /\ Column(artifacts, "name") = SubSeq(ArtifactNames, 1, Len(artifacts))
    /\ Sections = SubSeq(SectionHeaders, 1, Len(Sections))
    /\ ~Terminated =>
          /\ Len(artifacts) = ImagesBefore(pc)
          /\ Len(Sections) = IF pc = "load" \/ pc = "summary" THEN 0
                             ELSE IF pc = "final_summary" THEN 2 ELSE 1
    /\ pc = "done" => (Len(artifacts) = 4 /\ Sections = SectionHeaders)

\* A step that fails writes no image, and a run that has ended does nothing.
C4_FailingStep ==
    /\ pc' \in {"exited", "crashed"} => (artifacts' = artifacts /\ figures' = figures)
    /\ Terminated => pc' = pc

\* C4: the images written so far are a prefix of the four file names in their
\* fixed order and the console sections appear in the order overview,
\* filtering insights, summary; a run at stage p has written exactly the images
\* of the stages before p; a run that reaches the end has written all four
\* images and all three sections; the step on which a run fails writes nothing,
\* so a failed run holds exactly the images of the stages completed before it.
C4_StagesInOrder == []C4_Order /\ [][C4_FailingStep]_vars

\* A run has failed in the genre stage, after three images.
C4_Witness == pc = "crashed" /\ Len(artifacts) = 3 /\ Len(Sections) = 1

\* C5: with no distinct user or no distinct rated item (an empty ratings
\* table), the run dies in the summary stage: it never gets past it, never
\* prints a sparsity or an average, never opens a figure or writes an image.
C5_EmptyRatingsFatal ==
    (/\ Loaded
     /\ pc # "summary"
     /\ NUnique(ratings_df.rows, "userId") * NUnique(ratings_df.rows, "movieId") = 0)
    => /\ pc = "crashed"
       /\ ~ENABLED Next
       /\ ~Printed("Sparsity")
       /\ ~Printed("Avg ratings per user")
       /\ ~Printed("Avg ratings per movie")
       /\ ~Printed("Matrix sparsity")
       /\ figures = <<>>
       /\ artifacts = <<>>

\* The summary stage has run on an empty ratings table.
C5_Witness ==
    /\ pc = "crashed"
    /\ Loaded
    /\ ratings_df.rows = <<>>
    /\ Printed("Total ratings")

PopularityDone == Len(artifacts) >= 2

UserBehaviorDone == Len(artifacts) >= 3

GenreDone == Len(artifacts) = 4

BiasDone == pc \in {"final_summary", "done"}

NumRatings == Len(ratings_df.rows)

\* The number of rating records of item m, and of rows of the items table
\* with identifier m.
RatingsOf(m) == Len(SelectSeq(ratings_df.rows, LAMBDA r : r.movieId = m))

ListingsOf(m) == Len(SelectSeq(loaded_movies.rows, LAMBDA r : r.movieId = m))

RatedItems == Range(Column(ratings_df.rows, "movieId"))

\* C6 as stated: the per-user counts sum to N and the per-item counts sum to N.
C6_CountsSumToN ==
    /\ Len(artifacts) >= 1 => SumSeq(Column(user_activity, "size")) = NumRatings
    /\ PopularityDone => SumSeq(Column(movie_popularity, "num_ratings")) = NumRatings
    /\ UserBehaviorDone => SumSeq(Column(user_stats, "num_ratings")) = NumRatings

\* The sum of the counts of the joined per-item aggregate.
JoinedCountSum == SumSeq(Column(movie_popularity, "num_ratings"))

\* C6 amended: the per-user counts (user_activity and user_stats) sum to N, and
\* so do the per-item counts as grouped, before the join with the titles
\* (checked as the popularity stage ends).  The per-item aggregate that is kept
\* is the joined one: it counts a rating record once for every row of the
\* items table that lists the record's item, so its counts sum to the number
\* of such (record, row) pairs.  That is N when every rated item is listed
\* exactly once, less than N when a rated item is not listed and none is
\* listed more than once, and more than N when a rated item is listed more
\* than once and none is unlisted.
C6_CountsPerListing ==
    /\ Len(artifacts) >= 1 => SumSeq(Column(user_activity, "size")) = NumRatings
    /\ UserBehaviorDone => SumSeq(Column(user_stats, "num_ratings")) = NumRatings
    /\ pc = "user_behavior" =>
          SumSeq(Column(GroupedPopularity(ratings_df.rows, {}), "num_ratings")) = NumRatings
    /\ PopularityDone =>
          /\ JoinedCountSum
                = SumSeq([i \in DOMAIN ratings_df.rows |->
                             ListingsOf(ratings_df.rows[i].movieId)])
          /\ (\A m \in RatedItems : ListingsOf(m) = 1) => JoinedCountSum = NumRatings
          /\ ((\E m \in RatedItems : ListingsOf(m) = 0)
                /\ (\A m \in RatedItems : ListingsOf(m) <= 1))
                => JoinedCountSum < NumRatings
          /\ ((\E m \in RatedItems : ListingsOf(m) > 1)
                /\ (\A m \in RatedItems : ListingsOf(m) >= 1))
                => JoinedCountSum > NumRatings

\* Both aggregates exist, a rated item is not listed and the joined counts sum
\* to less than N.
C6_Witness ==
    /\ UserBehaviorDone
    /\ \E m \in RatedItems : ListingsOf(m) = 0
    /\ SumSeq(Column(movie_popularity, "num_ratings")) < NumRatings
    /\ SumSeq(Column(user_stats, "num_ratings")) = NumRatings

\* The number of delimiters in a string, and of occurrences of x in a list.
Delims(g) == Cardinality({i \in DOMAIN g : g[i] = Delim})

Occurrences(list, x) == Cardinality({i \in DOMAIN list : list[i] = x})

TallyTotal == SumSeq(Column(genre_counts, "count"))

\* C7: the tally summed over all labels is at least the number of item rows
\* and equals it exactly when no item's string holds a delimiter (every item
\* has one label); an item whose string lists K labels (K - 1 delimiters) adds
\* K to the total, 1 to a label's count for each time it lists the label.
C7_TallyTotal ==
    GenreDone =>
       /\ TallyTotal >= Len(movies_df.rows)
       /\ (TallyTotal = Len(movies_df.rows))
             <=> (\A i \in DOMAIN loaded_movies.rows : Delims(loaded_movies.rows[i].genres) = 0)
       /\ TallyTotal = SumSeq([i \in DOMAIN loaded_movies.rows |->
                                  1 + Delims(loaded_movies.rows[i].genres)])
       /\ \A e \in Range(genre_counts) :
             e.count = SumSeq([i \in DOMAIN movies_df.rows |->
                                  Occurrences(movies_df.rows[i].genres_list, e.label)])
       /\ \A i \in DOMAIN movies_df.rows :
          \A j \in DOMAIN movies_df.rows[i].genres_list :
          \E e \in Range(genre_counts) : e.label = movies_df.rows[i].genres_list[j]

\* The tally exists for a table with a several-label item and exceeds the
\* number of rows.
C7_Witness ==
    /\ GenreDone
    /\ TallyTotal > Len(movies_df.rows)
    /\ \E i \in DOMAIN movies_df.rows : Len(movies_df.rows[i].genres_list) = 3

\* The rating value of the only rating record of item m.
OnlyRating(m) ==
    (CHOOSE r \in Range(ratings_df.rows) : r.movieId = m).rating

\* C8 as stated: for an item with one rating record the aggregate's mean is
\* that rating exactly and its standard deviation is absent.
C8_SingleRatingExact ==
    PopularityDone =>
       \A e \in Range(movie_popularity) :
          e.num_ratings = 1 =>
             (e.avg_rating = OnlyRating(e.movieId) /\ e.rating_std = NaN)

\* C8 amended: for an item with one rating record the aggregate's mean is that
\* rating rounded to 2 decimal places, hence the rating exactly when it has at
\* most 2 decimals and up to 0.005 off otherwise; its standard deviation is
\* absent.
C8_SingleRatingRounded ==
    PopularityDone =>
       \A e \in Range(movie_popularity) :
          e.num_ratings = 1 =>
             /\ e.rating_std = NaN
             /\ e.avg_rating % 10 = 0
             /\ e.avg_rating - OnlyRating(e.movieId) \in -5..5
             /\ OnlyRating(e.movieId) % 10 = 0 => e.avg_rating = OnlyRating(e.movieId)

\* The aggregate holds an item rated once with a three-decimal value, and one
\* rated once with a value of at most two decimals.
C8_Witness ==
    /\ PopularityDone
    /\ \E e \in Range(movie_popularity) :
          e.num_ratings = 1 /\ OnlyRating(e.movieId) % 10 # 0
    /\ \E e \in Range(movie_popularity) :
          e.num_ratings = 1 /\ OnlyRating(e.movieId) % 10 = 0

MinOf(a, b) == IF a <= b THEN a ELSE b

PopularSet == Range(popular_movies_ids)

\* C9 as stated: the popular-item set holds min(50, M_rated) distinct items and
\* no rated item outside it has more ratings than an item inside it.
C9_TopOfRatedItems ==
    BiasDone =>
       /\ Len(popular_movies_ids) = MinOf(TopMovies, Cardinality(RatedItems))
       /\ Cardinality(PopularSet) = Len(popular_movies_ids)
       /\ \A m \in RatedItems \ PopularSet :
          \A k \in PopularSet : RatingsOf(m) <= RatingsOf(k)

\* C9 amended: the popular-item list is the top 50 rows by rating count of the
\* joined per-item aggregate, which has one row per (rated item, row of the
\* items table listing it): it holds min(50, rows of that aggregate) entries,
\* every one a rated and listed item, an item at most as often as it is listed
\* (so more than once only if listed more than once); it is in descending order
\* of rating count, and no aggregate row left out has more ratings than an
\* entry.  A rated item that the items table does not list is never in it.
C9_TopOfJoinedAggregate ==
    BiasDone =>
       /\ Len(popular_movies_ids) = MinOf(TopMovies, Len(movie_popularity))
       /\ Len(movie_popularity)
             = Cardinality({<<m, i>> \in RatedItems \X DOMAIN loaded_movies.rows :
                               loaded_movies.rows[i].movieId = m})
       /\ PopularSet \subseteq RatedItems
       /\ \A m \in PopularSet :
             /\ ListingsOf(m) >= 1
             /\ Occurrences(popular_movies_ids, m) <= ListingsOf(m)
       /\ \A i \in DOMAIN popular_movies_ids :
             i > 1 => RatingsOf(popular_movies_ids[i - 1]) >= RatingsOf(popular_movies_ids[i])
       /\ \A m \in RatedItems :
             Occurrences(popular_movies_ids, m) < ListingsOf(m)
                => \A k \in PopularSet : RatingsOf(m) <= RatingsOf(k)

\* More than 50 aggregate rows: 50 are selected, a row is left out, and the
\* selection holds an item with more ratings than the one left out.
C9_Witness ==
    /\ BiasDone
    /\ Len(movie_popularity) > TopMovies
    /\ Len(popular_movies_ids) = TopMovies
    /\ \E m \in RatedItems \ PopularSet :
       \E k \in PopularSet : ListingsOf(m) = 1 /\ RatingsOf(m) < RatingsOf(k)

\* The labels in the order the genre stage reads them: rows top to bottom,
\* labels left to right.
AllGenres == Extend(Column(movies_df.rows, "genres_list"))

FirstSeen(l) == Min({i \in DOMAIN AllGenres : AllGenres[i] = l})

LabelCount(l) == Occurrences(AllGenres, l)

Selected == Range(Column(top_genres, "label"))

\* C10: the genre stage selects min(10, distinct labels) labels, none left out
\* has a higher count than a selected one, they are listed in descending count
\* order with their counts, and of two labels with equal counts the one read
\* first is listed first and is the one selected if only one is.
C10_TopGenres ==
    GenreDone =>
       /\ Len(top_genres) = MinOf(TopGenres, Cardinality(Range(AllGenres)))
       /\ Cardinality(Selected) = Len(top_genres)
       /\ Selected \subseteq Range(AllGenres)
       /\ \A i \in DOMAIN top_genres : top_genres[i].count = LabelCount(top_genres[i].label)
       /\ \A x \in Range(AllGenres) \ Selected :
          \A y \in Selected :
             /\ LabelCount(x) <= LabelCount(y)
             /\ LabelCount(x) = LabelCount(y) => FirstSeen(y) < FirstSeen(x)
       /\ \A i, j \in DOMAIN top_genres :
             i < j => /\ top_genres[i].count >= top_genres[j].count
                      /\ top_genres[i].count = top_genres[j].count
                            => FirstSeen(top_genres[i].label) < FirstSeen(top_genres[j].label)

\* More than 10 distinct labels, with a label left out whose count equals that
\* of a selected one, and two selected labels of different counts.
C10_Witness ==
    /\ GenreDone
    /\ Cardinality(Range(AllGenres)) > TopGenres
    /\ \E x \in Range(AllGenres) \ Selected :
       \E y \in Selected : LabelCount(x) = LabelCount(y)
    /\ \E i \in DOMAIN top_genres : top_genres[i].count > top_genres[Len(top_genres)].count

====
